---- MODULE Spec2Model ----
(***************************************************************************)
(* Model of image_gen/server.py: the generate_image tool handler           *)
(* (handle_call_tool) and the upstream request with its one-shot fallback   *)
(* to the default model (make_together_request).                            *)
(*                                                                          *)
(* Python values are modelled as tagged records with a uniform shape, so    *)
(* that a JSON body, an error entry or an argument of an unexpected type is *)
(* a value of the model and the Python operation applied to it raises what  *)
(* Python raises.  Texts on which the code computes (.lower(), `in`) are    *)
(* sequences of one-character strings.                                      *)
(***************************************************************************)
EXTENDS Integers, Sequences, FiniteSets, TLC

(* ------------------------------------------------------------------------ *)
(* Bounds                                                                   *)
(* ------------------------------------------------------------------------ *)

\* Number of invocation slots (concurrent handle_call_tool coroutines).
NumInvocations == 2

\* Largest width / height a caller passes (0 .. MaxDim).
MaxDim == 1

Invocations == 1 .. NumInvocations

(* ------------------------------------------------------------------------ *)
(* Texts as character sequences, str.lower() and the substring test         *)
(* ------------------------------------------------------------------------ *)

UpperAlpha ==
  <<"A","B","C","D","E","F","G","H","I","J","K","L","M",
    "N","O","P","Q","R","S","T","U","V","W","X","Y","Z">>

LowerAlpha ==
  <<"a","b","c","d","e","f","g","h","i","j","k","l","m",
    "n","o","p","q","r","s","t","u","v","w","x","y","z">>

\* str.lower() on one character.
LowerChar(c) ==
  IF \E k \in 1 .. Len(UpperAlpha) : UpperAlpha[k] = c
    THEN LowerAlpha[CHOOSE k \in 1 .. Len(UpperAlpha) : UpperAlpha[k] = c]
    ELSE c

\* str.lower()
Lower(s) == [k \in 1 .. Len(s) |-> LowerChar(s[k])]

\* `needle in hay` for two str values.
Contains(needle, hay) ==
  \E k \in 1 .. (Len(hay) - Len(needle) + 1) :
    SubSeq(hay, k, k + Len(needle) - 1) = needle

S_model == <<"m","o","d","e","l">>
S_not == <<"n","o","t">>
S_available == <<"a","v","a","i","l","a","b","l","e">>
S_not_available == S_not \o <<" ">> \o S_available
S_model_not_available == S_model \o <<"_">> \o S_not \o <<"_">> \o S_available
S_error == <<"e","r","r","o","r">>

\* Texts the upstream API is made to send in the model.
MsgUnavailable ==     \* "Model X is NOT available"
  <<"M","o","d","e","l"," ","X"," ","i","s"," ","N","O","T"," ">> \o S_available
MsgModelBusy ==       \* "model busy": "model" without "not available"
  S_model \o <<" ","b","u","s","y">>
MsgNotAvailable ==    \* "Not Available": "not available" without "model"
  <<"N","o","t"," ","A","v","a","i","l","a","b","l","e">>
MsgInvalidToken ==    \* "invalid token"
  <<"i","n","v","a","l","i","d"," ","t","o","k","e","n">>
CodeUnavailable == S_model_not_available
CodeUnavailableUpper ==   \* "MODEL_NOT_AVAILABLE"
  <<"M","O","D","E","L","_","N","O","T","_","A","V","A","I","L","A","B","L","E">>
CodeInvalidToken ==   \* "invalid_token"
  <<"i","n","v","a","l","i","d","_","t","o","k","e","n">>
BodyTextWithError ==  \* "error: bad gateway"
  S_error \o <<":"," ","b","a","d"," ","g","a","t","e","w","a","y">>
BodyTextPlain ==      \* "Bad Gateway"
  <<"B","a","d"," ","G","a","t","e","w","a","y">>

(* ------------------------------------------------------------------------ *)
(* Program constants                                                        *)
(* ------------------------------------------------------------------------ *)

DEFAULT_MODEL == "black-forest-labs/FLUX.1-schnell"

TOGETHER_AI_BASE == "https://api.together.xyz/v1/images/generations"

(* ------------------------------------------------------------------------ *)
(* Python / JSON values                                                     *)
(* ------------------------------------------------------------------------ *)

\* A value read with dict.get(key): the key is absent, or holds a str, or
\* holds JSON null (a value that is not a str).
Absent == [t |-> "absent", s |-> <<>>]
Str(s) == [t |-> "str", s |-> s]
Null == [t |-> "null", s |-> <<>>]

\* The "error" entry of a body: absent, a mapping with message / code, a
\* str, or null.
ErrAbsent == [t |-> "absent", message |-> Absent, code |-> Absent, s |-> <<>>]
ErrObj(m, c) == [t |-> "obj", message |-> m, code |-> c, s |-> <<>>]
ErrStr(s) == [t |-> "str", message |-> Absent, code |-> Absent, s |-> s]
ErrNull == [t |-> "null", message |-> Absent, code |-> Absent, s |-> <<>>]

\* An element of the "data" sequence: a mapping with or without b64_json,
\* or a str.
ImgItem(b) == [t |-> "obj", has_b64 |-> TRUE, b64_json |-> b]
EmptyItem == [t |-> "obj", has_b64 |-> FALSE, b64_json |-> ""]
StrItem == [t |-> "str", has_b64 |-> FALSE, b64_json |-> ""]

\* The "data" entry of a body: absent, null, or a sequence.
DataAbsent == [t |-> "absent", items |-> <<>>]
DataNull == [t |-> "null", items |-> <<>>]
DataList(items) == [t |-> "list", items |-> items]

\* A decoded body: a mapping, the empty JSON array, JSON null, or a JSON str.
ObjBody(e, d) == [t |-> "obj", error |-> e, data |-> d, s |-> <<>>]
ListBody == [t |-> "list", error |-> ErrAbsent, data |-> DataAbsent, s |-> <<>>]
NullBody == [t |-> "null", error |-> ErrAbsent, data |-> DataAbsent, s |-> <<>>]
StrBody(s) == [t |-> "str", error |-> ErrAbsent, data |-> DataAbsent, s |-> s]
EmptyBody == ObjBody(ErrAbsent, DataAbsent)

\* An optional int argument (width, height): None or an int.
NoneInt == [t |-> "None", n |-> 0]
Int_(n) == [t |-> "int", n |-> n]

\* The arguments of a tool call: None, or a dict in which prompt and model
\* are absent (has_* FALSE) or a str, and width and height absent or an int.
NoArguments ==
  [t |-> "None", has_prompt |-> FALSE, prompt |-> "", has_model |-> FALSE,
   model |-> "", width |-> NoneInt, height |-> NoneInt]
ArgDict(hp, p, hm, m, w, h) ==
  [t |-> "dict", has_prompt |-> hp, prompt |-> p, has_model |-> hm,
   model |-> m, width |-> w, height |-> h]
EmptyDict == ArgDict(FALSE, "", FALSE, "", NoneInt, NoneInt)

(* ------------------------------------------------------------------------ *)
(* Inputs                                                                   *)
(* ------------------------------------------------------------------------ *)

ToolNames == {"generate_image", "other_tool"}

Dims == {NoneInt} \cup {Int_(n) : n \in 0 .. MaxDim}

ValidArguments ==
  {ArgDict(TRUE, "a cat", TRUE, m, w, h) :
     m \in {"stabilityai/sdxl", DEFAULT_MODEL}, w \in Dims, h \in Dims}

InvalidArguments ==
  { NoArguments, EmptyDict,
    ArgDict(FALSE, "", TRUE, "stabilityai/sdxl", NoneInt, NoneInt),
    ArgDict(TRUE, "", TRUE, "stabilityai/sdxl", Int_(0), NoneInt),
    ArgDict(TRUE, "a cat", FALSE, "", NoneInt, NoneInt),
    ArgDict(TRUE, "a cat", TRUE, "", NoneInt, Int_(0)),
    ArgDict(FALSE, "", FALSE, "", Int_(0), NoneInt) }

AllArguments == ValidArguments \cup InvalidArguments

\* The arguments of the concurrent invocations: they differ in every field.
ConcArguments ==
  { ArgDict(TRUE, "a cat", TRUE, "stabilityai/sdxl", NoneInt, NoneInt),
    ArgDict(TRUE, "a dog", TRUE, "acme/pixel", Int_(0), Int_(0)) }

ErrorEntries ==
  { ErrObj(Str(MsgUnavailable), Absent),
    ErrObj(Absent, Str(CodeUnavailable)),
    ErrObj(Absent, Str(CodeUnavailableUpper)),
    ErrObj(Str(MsgInvalidToken), Absent),
    ErrObj(Str(MsgModelBusy), Str(CodeInvalidToken)),
    ErrObj(Str(MsgNotAvailable), Absent),
    ErrObj(Null, Str(CodeUnavailable)),
    ErrObj(Str(MsgInvalidToken), Null),
    ErrObj(Str(MsgUnavailable), Null),
    ErrStr(MsgInvalidToken),
    ErrNull }

DataEntries ==
  { DataAbsent, DataNull, DataList(<<>>), DataList(<<EmptyItem>>),
    DataList(<<StrItem>>), DataList(<<ImgItem("IMG_A")>>),
    DataList(<<ImgItem("IMG_B"), ImgItem("IMG_A")>>) }

Bodies ==
  {ObjBody(ErrAbsent, d) : d \in DataEntries}
    \cup {ObjBody(e, DataAbsent) : e \in ErrorEntries}
    \cup { ObjBody(ErrObj(Absent, Str(CodeUnavailable)), DataList(<<ImgItem("IMG_A")>>)),
           ObjBody(ErrObj(Str(MsgInvalidToken), Absent), DataList(<<ImgItem("IMG_A")>>)) }
    \cup {ListBody, NullBody, StrBody(BodyTextWithError), StrBody(BodyTextPlain)}

Statuses == {200, 400, 403}

\* What one client.post can bring: a transport fault raised by the call, or
\* a response with a status and a body that response.json() decodes or not.
Response(st, dec, b) == [fault |-> "none", status |-> st, decodes |-> dec, body |-> b]
Fault(f) == [fault |-> f, status |-> 0, decodes |-> FALSE, body |-> EmptyBody]

TransportFaults == {"TimeoutException", "ConnectError", "ProtocolError"}

Outcomes ==
  {Response(st, TRUE, b) : st \in Statuses, b \in Bodies}
    \cup {Response(st, FALSE, EmptyBody) : st \in Statuses}
    \cup {Fault(f) : f \in TransportFaults}

ConcOutcomes ==
  { Response(200, TRUE, ObjBody(ErrAbsent, DataList(<<ImgItem("IMG_A")>>))),
    Response(400, TRUE, ObjBody(ErrObj(Absent, Str(CodeUnavailable)), DataAbsent)),
    Response(403, TRUE, ObjBody(ErrObj(Str(MsgInvalidToken), Absent), DataAbsent)),
    Response(200, TRUE, ObjBody(ErrAbsent, DataList(<<>>))),
    Fault("TimeoutException") }

(* ------------------------------------------------------------------------ *)
(* Texts and tool results                                                   *)
(* ------------------------------------------------------------------------ *)

\* A message text: a literal prefix followed by what the f-string formats
\* into it (an error entry, a status, an exception's str()).
Text(p, he, e, hs, st, d) ==
  [prefix |-> p, has_err |-> he, err |-> e, has_status |-> hs, status |-> st,
   detail |-> d]

TextLiteral(p) == Text(p, FALSE, ErrAbsent, FALSE, 0, "")

\* f"Together API error: {data.get('error')}"
TogetherErrorText(data) ==
  Text("Together API error: ", TRUE, data.error, FALSE, 0, "")

\* f"HTTP error {status}"
HttpErrorText(status) == Text("HTTP error ", FALSE, ErrAbsent, TRUE, status, "")

\* f"Fallback API error: {data.get('error', 'Unknown error')} (HTTP {status})"
FallbackErrorText(data, status) ==
  IF data.error.t = "absent"
    THEN Text("Fallback API error: ", FALSE, ErrAbsent, TRUE, status, "Unknown error")
    ELSE Text("Fallback API error: ", TRUE, data.error, TRUE, status, "")

\* f"Failed to parse API response: {e}"
ParseErrorText(e) == Text("Failed to parse API response: ", FALSE, ErrAbsent, FALSE, 0, e)

\* text=response_data["error"] for an error entry of the upstream body.
ErrorEntryText(e) == Text("", TRUE, e, FALSE, 0, "")

\* What make_together_request returns: the upstream body, or a dict built
\* here that holds "error" only.
Upstream(body) == [src |-> "upstream", body |-> body, error |-> TextLiteral("")]
Local(text) == [src |-> "local", body |-> EmptyBody, error |-> text]

\* Content items.
TextContent(text) ==
  [type |-> "text", text |-> text, data |-> "", mimeType |-> ""]
ImageContent(data, mime) ==
  [type |-> "image", text |-> TextLiteral(""), data |-> data, mimeType |-> mime]

\* How a call ends: it returns a list of content items, returns None, or
\* raises.
ReturnList(items) == [kind |-> "return", t |-> "list", items |-> items, exc |-> ""]
ReturnNone == [kind |-> "return", t |-> "None", items |-> <<>>, exc |-> ""]
Raise(e) == [kind |-> "raise", t |-> "None", items |-> <<>>, exc |-> e]
NotReturned == [kind |-> "running", t |-> "None", items |-> <<>>, exc |-> ""]

(* ------------------------------------------------------------------------ *)
(* make_together_request, between its suspension points                     *)
(* ------------------------------------------------------------------------ *)

\* A mutant of RequestBody: `if width:` / `if height:`, which drops a 0.
RequestBodyTruthyDims(prompt, model, width, height) ==
  [model |-> model, prompt |-> prompt, response_format |-> "b64_json",
   width |-> IF width = Int_(0) THEN NoneInt ELSE width,
   height |-> IF height = Int_(0) THEN NoneInt ELSE height]

\* request_body as built from the parameters (a key that is not set is
\* NoneInt here).
RequestBody(prompt, model, width, height) ==
  [model |-> model, prompt |-> prompt, response_format |-> "b64_json",
   width |-> width, height |-> height]

\* send_request after the response arrived: (status_code, data).
Decode(resp) == IF resp.decodes THEN resp.body ELSE EmptyBody

\* `"error" in data`
HasError(data) ==
  CASE data.t = "obj" -> IF data.error.t # "absent" THEN "True" ELSE "False"
    [] data.t = "list" -> "False"
    [] data.t = "str" -> IF Contains(S_error, data.s) THEN "True" ELSE "False"
    [] data.t = "null" -> "TypeError"

\* v.get(key, "").lower() for the message or code of an error mapping.
GetLower(v) == IF v.t = "absent" THEN <<>> ELSE Lower(v.s)

\* The condition of the fallback on the lowered message and code.
IsModelUnavailable(error_msg, error_code) ==
  \/ Contains(S_model, error_msg) /\ Contains(S_not_available, error_msg)
  \/ error_code = S_model_not_available

\* Lines 82-87 on data["error"]: the branch taken, or the exception raised.
Classify(error_info) ==
  CASE error_info.t # "obj" -> "AttributeError"
    [] error_info.t = "obj" /\ error_info.message.t = "null" -> "AttributeError"
    [] error_info.t = "obj" /\ error_info.message.t # "null"
         /\ error_info.code.t = "null" -> "AttributeError"
    [] OTHER ->
         IF IsModelUnavailable(GetLower(error_info.message), GetLower(error_info.code))
           THEN "fallback" ELSE "other"

\* One step of make_together_request: it returns, raises, or goes on to the
\* fallback request.
StepReturn(v) == [kind |-> "return", value |-> v, exc |-> ""]
StepRaise(e) == [kind |-> "raise", value |-> Local(TextLiteral("")), exc |-> e]
StepFallback == [kind |-> "fallback", value |-> Local(TextLiteral("")), exc |-> ""]

\* A mutant of AfterFirst: line 81 without `status != 200 and`, so an error
\* entry is classified whatever the status.
AfterFirstIgnoresStatus(status, data) ==
  CASE HasError(data) = "TypeError" -> StepRaise("TypeError")
    [] HasError(data) = "True" ->
         IF data.t # "obj"
           THEN StepRaise("TypeError")
           ELSE (CASE Classify(data.error) = "AttributeError" ->
                        StepRaise("AttributeError")
                   [] Classify(data.error) = "fallback" -> StepFallback
                   [] Classify(data.error) = "other" ->
                        StepReturn(Local(TogetherErrorText(data))))
    [] HasError(data) = "False" ->
         IF status # 200 THEN StepReturn(Local(HttpErrorText(status)))
                         ELSE StepReturn(Upstream(data))

\* Lines 81-101 up to the fallback request, on the first (status, data).
AfterFirst(status, data) ==
  IF status # 200
    THEN CASE HasError(data) = "TypeError" -> StepRaise("TypeError")
           [] HasError(data) = "True" ->
                IF data.t # "obj"
                  THEN StepRaise("TypeError")
                  ELSE (CASE Classify(data.error) = "AttributeError" ->
                               StepRaise("AttributeError")
                          [] Classify(data.error) = "fallback" -> StepFallback
                          [] Classify(data.error) = "other" ->
                               StepReturn(Local(TogetherErrorText(data))))
           [] HasError(data) = "False" -> StepReturn(Local(HttpErrorText(status)))
    ELSE StepReturn(Upstream(data))

\* A mutant of AfterFallback: the fallback's data is returned without the
\* test of line 91.
AfterFallbackUnchecked(status, data) == StepReturn(Upstream(data))

\* Lines 91-95 on the fallback's (status, data).
AfterFallback(status, data) ==
  IF status # 200
    THEN IF data.t = "obj"
           THEN StepReturn(Local(FallbackErrorText(data, status)))
           ELSE StepRaise("AttributeError")
    ELSE CASE HasError(data) = "TypeError" -> StepRaise("TypeError")
           [] HasError(data) = "True" ->
                IF data.t = "obj"
                  THEN StepReturn(Local(FallbackErrorText(data, status)))
                  ELSE StepRaise("AttributeError")
           [] HasError(data) = "False" -> StepReturn(Upstream(data))

(* ------------------------------------------------------------------------ *)
(* handle_call_tool, between its suspension points                          *)
(* ------------------------------------------------------------------------ *)

\* `not arguments`
NotArguments(arguments) ==
  \/ arguments.t = "None"
  \/ /\ ~arguments.has_prompt /\ ~arguments.has_model
     /\ arguments.width.t = "None" /\ arguments.height.t = "None"

\* A mutant of NotPromptOrModel: `prompt is None or model is None`.
PromptOrModelIsNone(arguments) ==
  ~arguments.has_prompt \/ ~arguments.has_model

\* `not prompt or not model` on arguments.get("prompt"), arguments.get("model")
NotPromptOrModel(arguments) ==
  \/ ~arguments.has_prompt \/ arguments.prompt = ""
  \/ ~arguments.has_model \/ arguments.model = ""

\* Lines 112-126: the early return, if any.
Validate(name, arguments) ==
  IF NotArguments(arguments)
    THEN ReturnList(<<TextContent(TextLiteral("Missing arguments for the request"))>>)
    ELSE IF name = "generate_image"
      THEN IF NotPromptOrModel(arguments)
             THEN ReturnList(<<TextContent(TextLiteral("Missing prompt or model parameter"))>>)
             ELSE NotReturned
      ELSE ReturnNone

\* A mutant of ExtractImage: the last element of data is read, not the first.
ExtractImageLast(body) ==
  CASE body.t # "obj" -> Raise("TypeError")
    [] body.t = "obj" /\ body.data.t = "absent" ->
         ReturnList(<<TextContent(ParseErrorText("'data'"))>>)
    [] body.t = "obj" /\ body.data.t = "null" -> Raise("TypeError")
    [] body.t = "obj" /\ body.data.t = "list" ->
         IF body.data.items = <<>>
           THEN ReturnList(<<TextContent(ParseErrorText("list index out of range"))>>)
           ELSE (CASE body.data.items[Len(body.data.items)].t # "obj" -> Raise("TypeError")
                   [] body.data.items[Len(body.data.items)].t = "obj"
                        /\ ~body.data.items[Len(body.data.items)].has_b64 ->
                        ReturnList(<<TextContent(ParseErrorText("'b64_json'"))>>)
                   [] OTHER ->
                        ReturnList(<<ImageContent(body.data.items[Len(body.data.items)].b64_json,
                                                  "image/jpeg")>>))

\* A mutant of ExtractImage: `except KeyError` alone, so the IndexError of an
\* empty data sequence is not caught.
ExtractImageKeyErrorOnly(body) ==
  CASE body.t # "obj" -> Raise("TypeError")
    [] body.t = "obj" /\ body.data.t = "absent" ->
         ReturnList(<<TextContent(ParseErrorText("'data'"))>>)
    [] body.t = "obj" /\ body.data.t = "null" -> Raise("TypeError")
    [] body.t = "obj" /\ body.data.t = "list" ->
         IF body.data.items = <<>>
           THEN Raise("IndexError")
           ELSE (CASE body.data.items[1].t # "obj" -> Raise("TypeError")
                   [] body.data.items[1].t = "obj" /\ ~body.data.items[1].has_b64 ->
                        ReturnList(<<TextContent(ParseErrorText("'b64_json'"))>>)
                   [] OTHER ->
                        ReturnList(<<ImageContent(body.data.items[1].b64_json, "image/jpeg")>>))

\* Lines 140-152: response_data["data"][0]["b64_json"] under the try.
ExtractImage(body) ==
  CASE body.t # "obj" -> Raise("TypeError")
    [] body.t = "obj" /\ body.data.t = "absent" ->
         ReturnList(<<TextContent(ParseErrorText("'data'"))>>)
    [] body.t = "obj" /\ body.data.t = "null" -> Raise("TypeError")
    [] body.t = "obj" /\ body.data.t = "list" ->
         IF body.data.items = <<>>
           THEN ReturnList(<<TextContent(ParseErrorText("list index out of range"))>>)
           ELSE (CASE body.data.items[1].t # "obj" -> Raise("TypeError")
                   [] body.data.items[1].t = "obj" /\ ~body.data.items[1].has_b64 ->
                        ReturnList(<<TextContent(ParseErrorText("'b64_json'"))>>)
                   [] OTHER ->
                        ReturnList(<<ImageContent(body.data.items[1].b64_json, "image/jpeg")>>))

\* Lines 137-152 on what make_together_request returned.
HandleResponseData(response_data) ==
  IF response_data.src = "local"
    THEN ReturnList(<<TextContent(response_data.error)>>)
    ELSE CASE HasError(response_data.body) = "TypeError" -> Raise("TypeError")
           [] HasError(response_data.body) = "True" ->
                IF response_data.body.t = "obj"
                  THEN ReturnList(<<TextContent(ErrorEntryText(response_data.body.error))>>)
                  ELSE Raise("TypeError")
           [] HasError(response_data.body) = "False" ->
                ExtractImage(response_data.body)

(* ------------------------------------------------------------------------ *)
(* State                                                                    *)
(* ------------------------------------------------------------------------ *)

VARIABLES
  pc,            \* where each invocation of handle_call_tool stands
  name,          \* its parameter name
  arguments,     \* its parameter arguments
  client,        \* the httpx.AsyncClient it constructed (0: none)
  request_body,  \* request_body of its make_together_request
  calls,         \* the client.post calls it issued: <<[client, url, json]>>
  received,      \* what those calls brought, in order
  pending,       \* how the body of its `async with` ended
  result,        \* how the invocation ended
  openClients,   \* the clients entered and not yet exited
  numClients     \* the number of clients constructed so far

vars ==
  <<pc, name, arguments, client, request_body, calls, received, pending,
    result, openClients, numClients>>

NoRequestBody == RequestBody("", "", NoneInt, NoneInt)

Init ==
  /\ pc = [i \in Invocations |-> "idle"]
  /\ name = [i \in Invocations |-> ""]
  /\ arguments = [i \in Invocations |-> NoArguments]
  /\ client = [i \in Invocations |-> 0]
  /\ request_body = [i \in Invocations |-> NoRequestBody]
  /\ calls = [i \in Invocations |-> <<>>]
  /\ received = [i \in Invocations |-> <<>>]
  /\ pending = [i \in Invocations |-> NotReturned]
  /\ result = [i \in Invocations |-> NotReturned]
  /\ openClients = {}
  /\ numClients = 0

(* ------------------------------------------------------------------------ *)
(* Actions: one per stretch of code between two suspension points           *)
(* ------------------------------------------------------------------------ *)

\* client.post(TOGETHER_AI_BASE, headers=headers, json=body) is issued.
Post(i, body) ==
  calls' = [calls EXCEPT ![i] = Append(@, [client |-> client[i], url |-> TOGETHER_AI_BASE, json |-> body])]

\* handle_call_tool(name, arguments) is called: lines 112-128, up to the
\* construction of the client and the await of its __aenter__.
Invoke(i, n, a) ==
  /\ pc[i] = "idle"
  /\ name' = [name EXCEPT ![i] = n]
  /\ arguments' = [arguments EXCEPT ![i] = a]
  /\ IF Validate(n, a).kind = "running"
       THEN /\ pc' = [pc EXCEPT ![i] = "aenter"]
            /\ numClients' = numClients + 1
            /\ client' = [client EXCEPT ![i] = numClients + 1]
            /\ UNCHANGED result
       ELSE /\ pc' = [pc EXCEPT ![i] = "done"]
            /\ result' = [result EXCEPT ![i] = Validate(n, a)]
            /\ UNCHANGED <<numClients, client>>
  /\ UNCHANGED <<request_body, calls, received, pending, openClients>>

\* A mutant of AEnter: the request with the caller's model and the request
\* with the default model are issued together, as by asyncio.gather.
AEnterSendsBoth(i) ==
  /\ pc[i] = "aenter"
  /\ openClients' = openClients \cup {client[i]}
  /\ request_body' = [request_body EXCEPT ![i] =
       RequestBody(arguments[i].prompt, DEFAULT_MODEL,
                   arguments[i].width, arguments[i].height)]
  /\ calls' = [calls EXCEPT ![i] =
       <<[client |-> client[i], url |-> TOGETHER_AI_BASE,
          json |-> RequestBody(arguments[i].prompt, arguments[i].model,
                               arguments[i].width, arguments[i].height)],
         [client |-> client[i], url |-> TOGETHER_AI_BASE,
          json |-> request_body'[i]]>>]
  /\ pc' = [pc EXCEPT ![i] = "await1"]
  /\ UNCHANGED <<name, arguments, client, received, pending, result, numClients>>

\* The client is entered; make_together_request builds request_body
\* (lines 61-67) and issues the first request (line 78).
AEnter(i) ==
  /\ pc[i] = "aenter"
  /\ openClients' = openClients \cup {client[i]}
  /\ request_body' = [request_body EXCEPT ![i] =
       RequestBody(arguments[i].prompt, arguments[i].model,
                   arguments[i].width, arguments[i].height)]
  /\ Post(i, request_body'[i])
  /\ pc' = [pc EXCEPT ![i] = "await1"]
  /\ UNCHANGED <<name, arguments, client, received, pending, result, numClients>>

\* The body of the `async with` ends with `ending`: __aexit__ is awaited.
Leave(i, ending) ==
  /\ pending' = [pending EXCEPT ![i] = ending]
  /\ pc' = [pc EXCEPT ![i] = "aexit"]

\* make_together_request ended with `step` (a return or a raise): lines
\* 137-152 of handle_call_tool follow a return.
Finish(i, step) ==
  IF step.kind = "raise"
    THEN Leave(i, Raise(step.exc))
    ELSE Leave(i, HandleResponseData(step.value))

\* A mutant of Fallback: the request is sent again with the model as it was.
FallbackKeepsModel(i) ==
  /\ request_body' = request_body
  /\ Post(i, request_body'[i])
  /\ pc' = [pc EXCEPT ![i] = "await2"]
  /\ UNCHANGED pending

\* A mutant of Fallback: request_body is one dict shared by the invocations
\* (a module-level default), so the overwrite reaches them all.
FallbackSharedBody(i) ==
  /\ request_body' = [j \in Invocations |->
                        [request_body[j] EXCEPT !.model = DEFAULT_MODEL]]
  /\ Post(i, request_body'[i])
  /\ pc' = [pc EXCEPT ![i] = "await2"]
  /\ UNCHANGED pending

\* Lines 89-90: the model is overwritten and the request sent again.
Fallback(i) ==
  /\ request_body' = [request_body EXCEPT ![i].model = DEFAULT_MODEL]
  /\ Post(i, request_body'[i])
  /\ pc' = [pc EXCEPT ![i] = "await2"]
  /\ UNCHANGED pending

\* The first request ends with outcome o: lines 70-90.
Receive1(i, o) ==
  /\ pc[i] = "await1"
  /\ received' = [received EXCEPT ![i] = Append(@, o)]
  /\ IF o.fault # "none"
       THEN Leave(i, Raise(o.fault)) /\ UNCHANGED <<request_body, calls>>
       ELSE IF AfterFirst(o.status, Decode(o)).kind = "fallback"
         THEN Fallback(i)
         ELSE Finish(i, AfterFirst(o.status, Decode(o)))
                /\ UNCHANGED <<request_body, calls>>
  /\ UNCHANGED <<name, arguments, client, result, openClients, numClients>>

\* The fallback request ends with outcome o: lines 70-75 and 90-95.
Receive2(i, o) ==
  /\ pc[i] = "await2"
  /\ received' = [received EXCEPT ![i] = Append(@, o)]
  /\ IF o.fault # "none"
       THEN Leave(i, Raise(o.fault))
       ELSE Finish(i, AfterFallback(o.status, Decode(o)))
  /\ UNCHANGED <<name, arguments, client, request_body, calls, result,
                 openClients, numClients>>

\* A mutant of AExit: the client is closed on a return only, as by a
\* client.aclose() after the body instead of an `async with` around it.
AExitClosesOnReturnOnly(i) ==
  /\ pc[i] = "aexit"
  /\ openClients' = IF pending[i].kind = "raise" THEN openClients
                    ELSE openClients \ {client[i]}
  /\ result' = [result EXCEPT ![i] = pending[i]]
  /\ pc' = [pc EXCEPT ![i] = "done"]
  /\ UNCHANGED <<name, arguments, client, request_body, calls, received,
                 pending, numClients>>

\* __aexit__ of the client: it is closed, and the invocation ends as the
\* body of the `async with` did.
AExit(i) ==
  /\ pc[i] = "aexit"
  /\ openClients' = openClients \ {client[i]}
  /\ result' = [result EXCEPT ![i] = pending[i]]
  /\ pc' = [pc EXCEPT ![i] = "done"]
  /\ UNCHANGED <<name, arguments, client, request_body, calls, received,
                 pending, numClients>>

(* ------------------------------------------------------------------------ *)
(* Specifications                                                           *)
(* ------------------------------------------------------------------------ *)

\* One invocation, over every tool name, argument mapping and outcome.
Next ==
  \/ \E n \in ToolNames, a \in AllArguments : Invoke(1, n, a)
  \/ AEnter(1)
  \/ \E o \in Outcomes : Receive1(1, o)
  \/ \E o \in Outcomes : Receive2(1, o)
  \/ AExit(1)

Spec == Init /\ [][Next]_vars

\* Concurrent generate_image invocations, interleaved at their suspension
\* points.
ConcNext ==
  \/ \E i \in Invocations, a \in ConcArguments : Invoke(i, "generate_image", a)
  \/ \E i \in Invocations : AEnter(i)
  \/ \E i \in Invocations, o \in ConcOutcomes : Receive1(i, o)
  \/ \E i \in Invocations, o \in ConcOutcomes : Receive2(i, o)
  \/ \E i \in Invocations : AExit(i)

ConcSpec == Init /\ [][ConcNext]_vars

(* ------------------------------------------------------------------------ *)
(* Vocabulary of the properties                                             *)
(* ------------------------------------------------------------------------ *)

Done(i) == pc[i] = "done"

\* The invocation ended by returning exactly one text item / one image item.
ReturnedText(i) ==
  /\ result[i].kind = "return" /\ result[i].t = "list"
  /\ Len(result[i].items) = 1 /\ result[i].items[1].type = "text"

ReturnedTextPrefixed(i, p) ==
  ReturnedText(i) /\ result[i].items[1].text.prefix = p

ReturnedImage(i, b64) ==
  result[i] = ReturnList(<<[type |-> "image", text |-> TextLiteral(""),
                            data |-> b64, mimeType |-> "image/jpeg"]>>)

\* Error entries that are model-unavailable by message or by code, in the
\* letter case the API sent them.
UnavailableErrors ==
  { ErrObj(Str(MsgUnavailable), Absent),
    ErrObj(Absent, Str(CodeUnavailable)),
    ErrObj(Absent, Str(CodeUnavailableUpper)) }

\* The k-th outcome of invocation i is a response (no transport fault).
IsResponse(i, k) ==
  k >= 1 /\ Len(received[i]) >= k /\ received[i][k].fault = "none"

\* The k-th response decoded to a mapping.
DecodedObj(i, k) ==
  IsResponse(i, k) /\ received[i][k].decodes /\ received[i][k].body.t = "obj"

\* The first response is a non-200 with a model-unavailable error entry.
FirstUnavailable(i) ==
  /\ DecodedObj(i, 1)
  /\ received[i][1].status # 200
  /\ received[i][1].body.error \in UnavailableErrors

\* The k-th response carries data[0].b64_json.
HasB64(i, k) ==
  /\ DecodedObj(i, k)
  /\ received[i][k].body.data.t = "list"
  /\ received[i][k].body.data.items # <<>>
  /\ received[i][k].body.data.items[1].t = "obj"
  /\ received[i][k].body.data.items[1].has_b64

B64Of(i, k) == received[i][k].body.data.items[1].b64_json

\* The k-th response is a success: 200, no error entry, data[0].b64_json.
Succeeded(i, k) ==
  /\ HasB64(i, k)
  /\ received[i][k].status = 200
  /\ received[i][k].body.error.t = "absent"

(* ------------------------------------------------------------------------ *)
(* C1                                                                       *)
(* ------------------------------------------------------------------------ *)

\* C1: when the first response of a generate_image invocation is a non-200
\* with an error entry classified as model-unavailable, exactly two upstream
\* calls occur, the second carries DEFAULT_MODEL, and if the second succeeds
\* the result is the image of the second response.
C1_FallbackOnUnavailable ==
  \A i \in Invocations :
    FirstUnavailable(i) =>
      /\ Len(calls[i]) = 2
      /\ calls[i][2].json.model = DEFAULT_MODEL
      /\ (Done(i) /\ Succeeded(i, 2)) => ReturnedImage(i, B64Of(i, 2))

\* The fallback succeeded with an image other than the one the rejected
\* first response carried.
C1_Witness ==
  \E i \in Invocations :
    /\ Done(i) /\ FirstUnavailable(i) /\ Succeeded(i, 2)
    /\ HasB64(i, 1) /\ B64Of(i, 1) # B64Of(i, 2)
    /\ arguments[i].model # DEFAULT_MODEL

(* ------------------------------------------------------------------------ *)
(* C2                                                                       *)
(* ------------------------------------------------------------------------ *)

\* Some upstream call of invocation i ended in a transport fault.
SomeFault(i) == \E k \in 1 .. Len(received[i]) : received[i][k].fault # "none"

\* C2: a transport fault raised by client.post (timeout, connection refusal,
\* any other) is caught and the invocation resolves to a text ToolResult; a
\* fault on the first call ends the invocation after exactly one call.
C2_TransportFaultBecomesText ==
  \A i \in Invocations :
    (Done(i) /\ SomeFault(i)) =>
      /\ ReturnedText(i)
      /\ received[i][1].fault # "none" => Len(calls[i]) = 1

(* ------------------------------------------------------------------------ *)
(* C3                                                                       *)
(* ------------------------------------------------------------------------ *)

\* C3: every invocation, for every tool name, argument mapping and sequence
\* of upstream outcomes, ends having returned a sequence of exactly one
\* content item, a text item or an image item.
C3_ExactlyOneToolResult ==
  \A i \in Invocations :
    Done(i) =>
      /\ result[i].kind = "return" /\ result[i].t = "list"
      /\ Len(result[i].items) = 1
      /\ result[i].items[1].type \in {"text", "image"}

(* ------------------------------------------------------------------------ *)
(* C4                                                                       *)
(* ------------------------------------------------------------------------ *)

\* The k-th response is a non-200, or its body has an error entry.
FailedResponse(i, k) ==
  /\ IsResponse(i, k)
  /\ \/ received[i][k].status # 200
     \/ DecodedObj(i, k) /\ received[i][k].body.error.t # "absent"

\* C4: at most two upstream calls are made, and when the fallback call
\* returns a non-200 status or a body with an error entry no third call is
\* made and the result is a text ToolResult prefixed "Fallback API error:".
C4_FallbackFailureIsText ==
  \A i \in Invocations :
    /\ Len(calls[i]) <= 2
    /\ (Done(i) /\ FailedResponse(i, 2)) =>
         ReturnedTextPrefixed(i, "Fallback API error: ")

(* ------------------------------------------------------------------------ *)
(* C5                                                                       *)
(* ------------------------------------------------------------------------ *)

\* The call has no arguments at all: None, or an empty mapping.
NoArgumentsAtAll(i) ==
  \/ arguments[i].t = "None"
  \/ arguments[i] = EmptyDict

\* prompt or model is absent or empty in a generate_image request.
MissingPromptOrModel(i) ==
  /\ name[i] = "generate_image"
  /\ \/ ~arguments[i].has_prompt \/ arguments[i].prompt = ""
     \/ ~arguments[i].has_model \/ arguments[i].model = ""

\* C5: a generate_image request missing prompt or model (absent or empty),
\* and a request with no arguments at all, ends with a text ToolResult
\* stating what is missing; no HTTP call occurs and no client is created.
C5_MissingParameterIsText ==
  \A i \in Invocations :
    (pc[i] # "idle" /\ (NoArgumentsAtAll(i) \/ MissingPromptOrModel(i))) =>
      /\ Done(i)
      /\ \/ ReturnedTextPrefixed(i, "Missing arguments for the request")
         \/ ReturnedTextPrefixed(i, "Missing prompt or model parameter")
      /\ result[i].items[1].text = TextLiteral(result[i].items[1].text.prefix)
      /\ calls[i] = <<>>
      /\ client[i] = 0
      /\ numClients = Cardinality({j \in Invocations : client[j] # 0})

\* A generate_image request whose prompt is present but empty has ended.
C5_Witness ==
  \E i \in Invocations :
    /\ Done(i) /\ name[i] = "generate_image"
    /\ arguments[i].has_prompt /\ arguments[i].prompt = ""
    /\ arguments[i].has_model /\ arguments[i].model # ""
    /\ ReturnedTextPrefixed(i, "Missing prompt or model parameter")

(* ------------------------------------------------------------------------ *)
(* C6                                                                       *)
(* ------------------------------------------------------------------------ *)

\* The last outcome invocation i received.
Last(i) == Len(received[i])

\* C6: for every upstream response with status 200 and data[0].b64_json
\* present, the result of the invocation is an image ToolResult whose
\* payload equals that base64 string and whose MIME type is image/jpeg.
C6_Status200WithB64YieldsImage ==
  \A i \in Invocations :
    (Done(i) /\ HasB64(i, Last(i)) /\ received[i][Last(i)].status = 200) =>
      ReturnedImage(i, B64Of(i, Last(i)))

\* C6 as amended: for every upstream response with status 200, no error
\* entry and data[0].b64_json present, the result of the invocation is an
\* image ToolResult whose payload equals that base64 string and whose MIME
\* type is image/jpeg.
C6_SuccessYieldsImage ==
  \A i \in Invocations :
    (Done(i) /\ Succeeded(i, Last(i))) => ReturnedImage(i, B64Of(i, Last(i)))

\* The only call succeeded with a data sequence of two different images.
C6_Witness ==
  \E i \in Invocations :
    /\ Done(i) /\ Last(i) = 1 /\ Succeeded(i, 1)
    /\ Len(received[i][1].body.data.items) = 2
    /\ ReturnedImage(i, "IMG_B")

(* ------------------------------------------------------------------------ *)
(* C7                                                                       *)
(* ------------------------------------------------------------------------ *)

\* C7: for every HTTP status and every decoded body the upstream API returns
\* on either call, the invocation propagates no unhandled fault to its
\* caller: it returns a ToolResult.
C7_NoUnhandledFault ==
  \A i \in Invocations :
    (Done(i) /\ received[i] # <<>> /\ ~SomeFault(i)) =>
      /\ result[i].kind = "return" /\ result[i].t = "list"
      /\ Len(result[i].items) = 1

(* ------------------------------------------------------------------------ *)
(* C8                                                                       *)
(* ------------------------------------------------------------------------ *)

\* Error entries that are not model-unavailable: neither the message nor
\* the code, where it is text, has the wording.
OtherErrors ==
  { ErrObj(Str(MsgInvalidToken), Absent),
    ErrObj(Str(MsgModelBusy), Str(CodeInvalidToken)),
    ErrObj(Str(MsgNotAvailable), Absent),
    ErrObj(Str(MsgInvalidToken), Null),
    ErrStr(MsgInvalidToken),
    ErrNull }

\* C8: when the first response is a non-200 with an error entry that is not
\* classified as model-unavailable, exactly one upstream call occurs and the
\* result is a text ToolResult prefixed "Together API error:".
C8_OtherErrorIsText ==
  \A i \in Invocations :
    (Done(i) /\ DecodedObj(i, 1) /\ received[i][1].status # 200
       /\ received[i][1].body.error \in OtherErrors) =>
      /\ Len(calls[i]) = 1
      /\ ReturnedTextPrefixed(i, "Together API error: ")

(* ------------------------------------------------------------------------ *)
(* C9                                                                       *)
(* ------------------------------------------------------------------------ *)

\* C9: each invocation that reaches the HTTP stage owns its own client: it
\* holds it open while it awaits its responses, issues its calls on it and
\* on no other, shares it with no other invocation, and has released it once
\* it has ended, on every exit path.
C9_ClientScopedToInvocation ==
  \A i \in Invocations :
    /\ pc[i] \in {"await1", "await2", "aexit"} => client[i] \in openClients
    /\ Done(i) => client[i] \notin openClients
    /\ \A k \in 1 .. Len(calls[i]) :
         calls[i][k].client = client[i] /\ client[i] # 0
    /\ \A j \in Invocations \ {i} : client[i] # 0 => client[j] # client[i]
    /\ (\A j \in Invocations : Done(j)) => openClients = {}

\* Two invocations have ended, one by a transport fault and one with an
\* image, each after calls on its own client.
C9_Witness ==
  \E i, j \in Invocations :
    /\ Done(i) /\ Done(j)
    /\ result[i].kind = "raise" /\ calls[i] # <<>>
    /\ result[j].kind = "return" /\ calls[j] # <<>>
    /\ result[j].items[1].type = "image"
    /\ openClients = {}

(* ------------------------------------------------------------------------ *)
(* C10                                                                      *)
(* ------------------------------------------------------------------------ *)

\* The payloads invocation i has sent.
Payloads(i) == [k \in 1 .. Len(calls[i]) |-> calls[i][k].json]

\* Everything invocation i holds.
LocalState(i) ==
  <<pc[i], name[i], arguments[i], client[i], request_body[i], calls[i],
    received[i], pending[i], result[i]>>

\* What invocation i sent and how it ended follow from its own arguments and
\* its own responses.
OwnInputsOnly ==
  \A i \in Invocations :
    /\ \A k \in 1 .. Len(calls[i]) :
         /\ calls[i][k].json.prompt = arguments[i].prompt
         /\ calls[i][k].json.width = arguments[i].width
         /\ calls[i][k].json.height = arguments[i].height
         /\ calls[i][k].json.model =
              IF k = 1 THEN arguments[i].model ELSE DEFAULT_MODEL
    /\ pc[i] \in {"await1", "await2"} =>
         request_body[i] = calls[i][Len(calls[i])].json
    /\ \A j \in Invocations :
         (/\ name[i] = name[j] /\ arguments[i] = arguments[j]
          /\ received[i] = received[j] /\ pc[i] = pc[j]) =>
           /\ Payloads(i) = Payloads(j)
           /\ pending[i] = pending[j]
           /\ result[i] = result[j]

\* A step of one invocation leaves what the others hold as it was.
OthersUntouched ==
  \A j \in Invocations : pc'[j] = pc[j] => LocalState(j)' = LocalState(j)

\* C10: concurrent invocations are independent: under every interleaving at
\* the suspension points, what an invocation sends, how many calls it makes
\* and how it ends depend only on its own arguments and responses, and a
\* fallback in one never changes the model, prompt, width or height of
\* another.
C10_InvocationsIndependent == [](OwnInputsOnly) /\ [][OthersUntouched]_vars

\* One invocation has fallen back to the default model while another, with
\* other arguments, awaits the response to its own model.
C10_Witness ==
  \E i, j \in Invocations :
    /\ pc[i] = "await2" /\ pc[j] = "await1"
    /\ arguments[i] # arguments[j]
    /\ request_body[i].model = DEFAULT_MODEL
    /\ request_body[j].model = arguments[j].model
    /\ arguments[j].model # DEFAULT_MODEL

(* ------------------------------------------------------------------------ *)
(* C11                                                                      *)
(* ------------------------------------------------------------------------ *)

\* The k-th response has a successful status and a body (a mapping, or one
\* that did not decode) without an error entry.
SuccessStatusNoError(i, k) ==
  /\ IsResponse(i, k)
  /\ received[i][k].status = 200
  /\ \/ ~received[i][k].decodes
     \/ DecodedObj(i, k) /\ received[i][k].body.error.t = "absent"

\* The k-th response has no data key, an empty data sequence, or a first
\* element that is a mapping without b64_json.
NoImageInData(i, k) ==
  \/ ~received[i][k].decodes
  \/ /\ DecodedObj(i, k)
     /\ \/ received[i][k].body.data.t = "absent"
        \/ received[i][k].body.data = DataList(<<>>)
        \/ /\ received[i][k].body.data.t = "list"
           /\ received[i][k].body.data.items # <<>>
           /\ received[i][k].body.data.items[1] = EmptyItem

MeetsFallbackCondition ==
  UnavailableErrors \cup
    { ErrObj(Str(MsgUnavailable), Null),
      ErrObj(Null, Str(CodeUnavailable)) }

\* The first response meets the three conditions of the transition.
FallbackDue(i) ==
  /\ DecodedObj(i, 1)
  /\ received[i][1].status # 200
  /\ received[i][1].body.error \in MeetsFallbackCondition

\* Invocation i went on to the fallback request.
FellBack(i) == Len(calls[i]) = 2

\* C12: INITIAL goes to FALLBACK if and only if the first response has a
\* status other than 200, an error entry is present, and the error message
\* (case-insensitively) contains both "model" and "not available" or the
\* error code (case-insensitively) equals "model_not_available"; for every
\* other first response no second call is made.
C12_FallbackIffUnavailable ==
  \A i \in Invocations :
    received[i] # <<>> => (FellBack(i) <=> FallbackDue(i))

(* ------------------------------------------------------------------------ *)
(* C13                                                                      *)
(* ------------------------------------------------------------------------ *)

\* The payload has the key width / height.
HasWidth(json) == json.width.t = "int"
HasHeight(json) == json.height.t = "int"

\* The caller provided width / height.
ProvidedWidth(i) == arguments[i].width.t = "int"
ProvidedHeight(i) == arguments[i].height.t = "int"

\* C13: the payload of every upstream call contains model, prompt and
\* response_format = "b64_json", and contains width (height) if and only if
\* the caller provided it; the fallback payload is the initial payload with
\* model replaced by the default model and nothing else changed.
C13_PayloadShape ==
  \A i \in Invocations :
    /\ \A k \in 1 .. Len(calls[i]) :
         /\ calls[i][k].json.prompt = arguments[i].prompt
         /\ calls[i][k].json.prompt # ""
         /\ calls[i][k].json.model # ""
         /\ calls[i][k].json.response_format = "b64_json"
         /\ HasWidth(calls[i][k].json) <=> ProvidedWidth(i)
         /\ HasHeight(calls[i][k].json) <=> ProvidedHeight(i)
         /\ ProvidedWidth(i) => calls[i][k].json.width = arguments[i].width
         /\ ProvidedHeight(i) => calls[i][k].json.height = arguments[i].height
    /\ Len(calls[i]) >= 1 => calls[i][1].json.model = arguments[i].model
    /\ Len(calls[i]) = 2 =>
         calls[i][2].json = [calls[i][1].json EXCEPT !.model = DEFAULT_MODEL]

\* A fallback was sent for a caller who gave width 0 and no height.
C13_Witness ==
  \E i \in Invocations :
    /\ Len(calls[i]) = 2
    /\ arguments[i].width = Int_(0) /\ arguments[i].height = NoneInt
    /\ calls[i][1].json.model # DEFAULT_MODEL
    /\ calls[i][2].json.model = DEFAULT_MODEL
    /\ HasWidth(calls[i][2].json) /\ ~HasHeight(calls[i][2].json)

(* ------------------------------------------------------------------------ *)
(* C14                                                                      *)
(* ------------------------------------------------------------------------ *)

\* The k-th response's body has an error entry.
HasErrorEntry(i, k) ==
  DecodedObj(i, k) /\ received[i][k].body.error.t # "absent"

\* C14: when the first response has a status other than 200 and no error
\* entry (a body that fails to decode included), exactly one upstream call
\* occurs and the result is a text ToolResult "HTTP error <status>" with
\* that status.
C14_HttpErrorText ==
  \A i \in Invocations :
    (Done(i) /\ IsResponse(i, 1) /\ received[i][1].status # 200
       /\ ~HasErrorEntry(i, 1)) =>
      /\ Len(calls[i]) = 1
      /\ ReturnedTextPrefixed(i, "HTTP error ")
      /\ result[i].items[1].text.has_status
      /\ result[i].items[1].text.status = received[i][1].status

(* ------------------------------------------------------------------------ *)
(* C15                                                                      *)
(* ------------------------------------------------------------------------ *)

\* The upstream requests of invocation i that are in flight.
InFlight(i) == Len(calls[i]) - Len(received[i])

\* The fallback request follows the receipt and classification of the first
\* response, and at most one request of an invocation is in flight, namely
\* while it awaits it.
CallsStrictlyOrdered ==
  \A i \in Invocations :
    /\ Len(calls[i]) <= 2
    /\ Len(calls[i]) = 2 =>
         /\ IsResponse(i, 1) /\ received[i][1].status # 200
         /\ DecodedObj(i, 1) /\ received[i][1].body.error \in UnavailableErrors
    /\ InFlight(i) \in {0, 1}
    /\ InFlight(i) = 1 <=> pc[i] \in {"await1", "await2"}
    /\ pc[i] = "await1" => Len(calls[i]) = 1
    /\ pc[i] = "await2" => Len(calls[i]) = 2

\* C15: within one invocation the initial and the fallback call are strictly
\* ordered and never concurrent, at most one request is in flight at any
\* time, and the invocation has no suspension points other than awaiting
\* these one or two responses.
C15_OrderedAndSuspendedOnResponsesOnly ==
  /\ CallsStrictlyOrdered
  /\ \A i \in Invocations :
       pc[i] \notin {"idle", "done"} => pc[i] \in {"await1", "await2"}

\* C15 as amended: within one invocation the initial and the fallback call
\* are strictly ordered and never concurrent, at most one request is in
\* flight at any time, and the invocation's suspension points are the awaits
\* of these one or two responses and the entry to and exit from the
\* `async with` of its client, at which no request is in flight.
C15_OrderedAndSuspendedOnResponsesOrClient ==
  /\ CallsStrictlyOrdered
  /\ \A i \in Invocations :
       /\ pc[i] \notin {"idle", "done"} =>
            pc[i] \in {"await1", "await2", "aenter", "aexit"}
       /\ pc[i] = "aenter" => calls[i] = <<>>
       /\ pc[i] = "aexit" => Len(received[i]) = Len(calls[i]) /\ calls[i] # <<>>

\* One invocation awaits the response to its fallback request while another
\* is leaving its client after its own fallback.
C15_Witness ==
  \E i, j \in Invocations :
    /\ pc[i] = "await2" /\ InFlight(i) = 1 /\ Len(received[i]) = 1
    /\ pc[j] = "aexit" /\ Len(calls[j]) = 2 /\ InFlight(j) = 0

(* ------------------------------------------------------------------------ *)
(* C16                                                                      *)
(* ------------------------------------------------------------------------ *)

\* The invocation ended, or is about to end, with an image item.
IsImageEnding(r) ==
  r.kind = "return" /\ r.t = "list" /\ r.items # <<>> /\ r.items[1].type = "image"

\* C16: an image ToolResult is produced only when the last upstream call of
\* the invocation returned status 200 with no error entry, and its payload
\* is data[0].b64_json of that last response: after a fallback never that of
\* the first response, and never after a last response that was a non-200 or
\* carried an error entry.
C16_ImageOnlyFromLastSuccess ==
  \A i \in Invocations :
    /\ IsImageEnding(result[i]) =>
         /\ Last(i) = Len(calls[i]) /\ Last(i) >= 1
         /\ Succeeded(i, Last(i))
         /\ ReturnedImage(i, B64Of(i, Last(i)))
    /\ IsImageEnding(pending[i]) =>
         /\ Last(i) >= 1 /\ Succeeded(i, Last(i))
         /\ pending[i].items[1].data = B64Of(i, Last(i))

\* An image came from a fallback response, other than the image the
\* rejected first response carried.
C16_Witness ==
  \E i \in Invocations :
    /\ Done(i) /\ Last(i) = 2 /\ IsImageEnding(result[i])
    /\ HasB64(i, 1) /\ received[i][1].status # 200
    /\ result[i].items[1].data # B64Of(i, 1)
    /\ result[i].items[1].data = B64Of(i, 2)

(* ------------------------------------------------------------------------ *)
(* C17                                                                      *)
(* ------------------------------------------------------------------------ *)

\* The first response has status 200 and a body with an error entry.
FirstOkWithError(i) ==
  /\ IsResponse(i, 1) /\ received[i][1].status = 200
  /\ HasErrorEntry(i, 1)

====
